---------------------------- MODULE Spec2Model ----------------------------
(***************************************************************************)
(* Model of the basis-selection core of pyapprox/approximate.py:           *)
(* expand_basis, restrict_basis, fit_linear_model, the degree sweep        *)
(* _cross_validate_pce_degree, the expand-restrict search                  *)
(* _expanding_basis_pce and the multi-QoI merge of the drivers.            *)
(*                                                                         *)
(* A multi-index is a tuple of NVars naturals (a column of the numpy       *)
(* array `indices`); an index set is the sequence of its columns, in       *)
(* column order.  Positions are 1-based here and 0-based in the source.    *)
(***************************************************************************)
EXTENDS Integers, Sequences, FiniteSets, TLC

\* ------------------------------------------------------------------ bounds
\* number of variables of the polynomial (rows of `indices`)
NVars == 2
\* largest total degree of an index drawn as an input
MaxDeg == 2
\* largest number of columns, besides the constant one, of an index set
\* drawn as an input of expand_basis
MaxLen == 3
\* largest tolerance drawn as an input of restrict_basis (tolerances are
\* 0..MaxTol on the integer scale of CoefValues)
MaxTol == 1
\* largest number of QoIs (columns of train_vals) a driver is run with
MaxQoI == 2
\* largest number of columns of one QoI's index set drawn for the merge
MaxMergeLen == 2
\* largest finite cross-validation score the regression backend reports
MaxScore == 1
\* largest max_iter option drawn as an input
MaxIterOption == 2
\* largest max_degree the degree sweep is run with
MaxSweepDegree == 2
\* a number of variables whose degree-2 index set is just above the term
\* cap, nearer to it than the degree-1 set
BigVars == 446
\* a number of variables whose degree-2 index set is far above the term cap
HugeVars == 632
\* largest max_num_terms the expand-restrict search is run with
MaxNumTerms == 8
\* the expand-restrict search is followed while the degrees of its index
\* set stay within this
MaxSearchDegree == 10

VARIABLES
    mode,              \* which operation the behaviour exercises
    pc,                \* position inside that operation
    indices,           \* the `indices` argument (sequence of multi-indices)
    new_indices,       \* expand_basis: the returned columns
    coefficients,      \* restrict_basis: the `coefficients` argument
    tol,               \* restrict_basis: the `tol` argument
    restricted,        \* restrict_basis: how the call ended
    driver,            \* merge: the driver function that runs it
    nqoi,              \* merge: train_vals.shape[1]
    qoi_indices,       \* merge: the list `indices`, one index set per QoI
    coefs,             \* merge: the list `coefs`, one vector per QoI
    indices_dict,      \* merge: key -> row of the union
    unique_indices,    \* merge: the union, in first-seen order
    pce_indices,       \* pce.indices
    pce_coefficients,  \* pce.coefficients
    solver_type,       \* the `solver_type` argument
    options,           \* the keyword options (linear_solver_options)
    omp_patched,       \* whether the installed sklearn stores mse_path_ for OMP
    fit_result,        \* fit_linear_model: how the last call ended
    num_vars,          \* pce.num_vars()
    min_degree,        \* the `min_degree` argument
    max_degree,        \* the `max_degree` argument
    degree,            \* the loop variable of the sweep
    best_coef,
    best_cv_score,
    best_degree,
    best_reg_param,
    prev_num_terms,
    rng_state,         \* the saved np.random state
    np_random,         \* numpy's global random state
    fitted,            \* history: per fit_linear_model call of the search,
                       \* what was fitted and the random state it started in
    lowest,            \* history: the lowest score any fit reported, and
                       \* the first fit that reported it
    result,            \* how the search ended
    max_num_terms,     \* the `max_num_terms` argument
    restriction_tol,   \* the `restriction_tol` argument
    num_terms,
    best_indices,
    best_cv_score_iter,
    best_coef_iter,
    best_indices_iter,
    best_reg_param_iter,
    best_num_expansion_steps,
    best_num_expansion_steps_iter,
    max_num_expansion_steps,
    num_expansion_steps,
    it,
    best_it

basisVars == <<indices, new_indices, coefficients, tol, restricted>>

mergeVars == <<driver, nqoi, qoi_indices, coefs, indices_dict, unique_indices>>

pceVars == <<pce_indices, pce_coefficients>>

fitVars == <<solver_type, options, omp_patched, fit_result>>

searchVars ==
    <<num_vars, min_degree, max_degree, degree, best_coef, best_cv_score,
      best_degree, best_reg_param, prev_num_terms, rng_state, np_random,
      fitted, lowest, result>>

\* the locals of _expanding_basis_pce that the sweep does not have
stepVars ==
    <<max_num_terms, restriction_tol, num_terms, best_indices,
      best_cv_score_iter, best_coef_iter, best_indices_iter,
      best_reg_param_iter, best_num_expansion_steps,
      best_num_expansion_steps_iter, max_num_expansion_steps,
      num_expansion_steps, it, best_it>>

vars ==
    <<mode, pc, basisVars, mergeVars, pceVars, fitVars, searchVars, stepVars>>

StepIdle ==
    /\ max_num_terms = 0
    /\ restriction_tol = 0
    /\ num_terms = 0
    /\ best_indices = <<>>
    /\ best_cv_score_iter = 0
    /\ best_coef_iter = <<>>
    /\ best_indices_iter = <<>>
    /\ best_reg_param_iter = <<>>
    /\ best_num_expansion_steps = 0
    /\ best_num_expansion_steps_iter = 0
    /\ max_num_expansion_steps = 0
    /\ num_expansion_steps = 0
    /\ it = 0
    /\ best_it = 0

SearchIdle ==
    /\ num_vars = 0
    /\ min_degree = 0
    /\ max_degree = 0
    /\ degree = 0
    /\ best_coef = <<>>
    /\ best_cv_score = 0
    /\ best_degree = 0
    /\ best_reg_param = <<>>
    /\ prev_num_terms = 0
    /\ rng_state = 0
    /\ np_random = 0
    /\ fitted = <<>>
    /\ lowest = <<>>
    /\ result = [status |-> "none"]

FitIdle ==
    /\ solver_type = "none"
    /\ options = <<>>
    /\ omp_patched = FALSE
    /\ fit_result = [status |-> "none"]

MergeIdle ==
    /\ driver = "none"
    /\ nqoi = 0
    /\ qoi_indices = <<>>
    /\ coefs = <<>>
    /\ indices_dict = <<>>
    /\ unique_indices = <<>>

PceIdle ==
    /\ pce_indices = <<>>
    /\ pce_coefficients = <<>>

BasisIdle ==
    /\ indices = <<>>
    /\ new_indices = <<>>
    /\ coefficients = <<>>
    /\ tol = 0
    /\ restricted = [status |-> "none"]

\* --------------------------------------------------------- multi-indices
RECURSIVE SumTo(_, _)
SumTo(index, n) ==
    IF n = 0 THEN 0 ELSE index[n] + SumTo(index, n - 1)

\* indices.sum(axis=0) for one column
Degree(index) == SumTo(index, Len(index))

\* the all-zero (constant) index
ZeroIndex == [d \in 1..NVars |-> 0]

\* every multi-index of total degree <= deg
TotalDegreeIndices(deg) ==
    {index \in [1..NVars -> 0..deg] : Degree(index) <= deg}

\* radix of the key: one more than the largest entry a forward neighbour of
\* an index of the model can have
KeyBase == (IF MaxDeg > MaxSearchDegree THEN MaxDeg ELSE MaxSearchDegree) + 2

RECURSIVE KeyTo(_, _)
KeyTo(index, n) ==
    IF n = 0 THEN 0 ELSE index[n] + KeyBase * KeyTo(index, n - 1)

\* hash_array(index): a collision-free key of the index (mixed radix)
hash_array(index) == KeyTo(index, Len(index))

\* get_forward_neighbor(index, dd): a copy with entry dd incremented
get_forward_neighbor(index, dd) ==
    [index EXCEPT ![dd] = @ + 1]

\* get_backward_neighbor(index, kk): a copy with entry kk decremented; kk is
\* what the caller passes, here an array of positions (fancy indexing
\* decrements each of them once)
get_backward_neighbor(index, kk) ==
    [d \in DOMAIN index |-> IF d \in kk THEN index[d] - 1 ELSE index[d]]

\* np.nonzero(index): a 1-tuple holding the array of non-zero positions
nonzero(index) ==
    <<{d \in DOMAIN index : index[d] # 0}>>

Range(s) == {s[k] : k \in DOMAIN s}

IsDistinct(s) == Cardinality(Range(s)) = Len(s)

\* ------------------------------------------------------------ expand_basis
\* indices_set.add(key), line 869
AdmitKeyForgotten(indices_set, key) == indices_set

AdmitKey(indices_set, key) == indices_set \cup {key}

\* lines 850-852: the keys of the input columns
InitialKeys(idx) == {hash_array(idx[ii]) : ii \in DOMAIN idx}

\* lines 862-867: `for kk in active_vars` runs over the tuple np.nonzero
\* returned, so kk is the whole array of non-zero positions of `index`
IsAdmissible(forward_index, active_vars, indices_set) ==
    \A n \in DOMAIN active_vars :
        hash_array(get_backward_neighbor(forward_index, active_vars[n]))
            \in indices_set

\* lines 855-870: the double loop, from column ii and dimension dd on
RECURSIVE ExpandFrom(_, _, _, _, _)
ExpandFrom(idx, ii, dd, indices_set, acc) ==
    IF ii > Len(idx) THEN acc
    ELSE IF dd > NVars THEN ExpandFrom(idx, ii + 1, 1, indices_set, acc)
    ELSE LET index == idx[ii]
             active_vars == nonzero(index)
             forward_index == get_forward_neighbor(index, dd)
             key == hash_array(forward_index)
             admit == /\ key \notin indices_set
                      /\ IsAdmissible(forward_index, active_vars, indices_set)
         IN  ExpandFrom(idx, ii, dd + 1,
                        IF admit THEN AdmitKey(indices_set, key) ELSE indices_set,
                        IF admit THEN Append(acc, forward_index) ELSE acc)

expand_basis(idx) == ExpandFrom(idx, 1, 1, InitialKeys(idx), <<>>)

\* the indices an input index set is drawn from
InputIndices == TotalDegreeIndices(MaxDeg)

\* The index sets handed to expand_basis have duplicate-free columns, the
\* constant index first (as in every set the searches build), then up to
\* MaxLen further indices in any order: DrawIndex appends one of them.
InitExpand ==
    /\ mode = "expand"
    /\ pc = "input"
    /\ indices = <<ZeroIndex>>
    /\ new_indices = <<>>
    /\ coefficients = <<>>
    /\ tol = 0
    /\ restricted = [status |-> "none"]
    /\ MergeIdle
    /\ PceIdle
    /\ FitIdle
    /\ SearchIdle
    /\ StepIdle

DrawIndex ==
    /\ mode = "expand"
    /\ pc = "input"
    /\ Len(indices) <= MaxLen
    /\ \E index \in InputIndices \ Range(indices) :
           indices' = Append(indices, index)
    /\ UNCHANGED <<mode, pc, new_indices, coefficients, tol, restricted>>
    /\ UNCHANGED <<mergeVars, pceVars, fitVars, searchVars, stepVars>>

ExpandBasis ==
    /\ mode = "expand"
    /\ pc = "input"
    /\ new_indices' = expand_basis(indices)
    /\ pc' = "returned"
    /\ UNCHANGED <<mode, indices, coefficients, tol, restricted>>
    /\ UNCHANGED <<mergeVars, pceVars, fitVars, searchVars, stepVars>>

NextExpand == DrawIndex \/ ExpandBasis

SpecExpand == InitExpand /\ [][NextExpand]_vars

\* an index set is admissible when every member's backward neighbour in each
\* of its non-zero dimensions is a member
BackwardNeighbours(index) ==
    {[index EXCEPT ![k] = @ - 1] : k \in {d \in DOMAIN index : index[d] > 0}}

AdmissibleSet(S) == \A index \in S : BackwardNeighbours(index) \subseteq S

\* C1: for an admissible input S, every index expand_basis returns has all
\* its backward neighbours (one per non-zero dimension) in S
C1_AdmissibilityClosure ==
    (mode = "expand" /\ pc = "returned" /\ AdmissibleSet(Range(indices)))
        => \A n \in DOMAIN new_indices :
               BackwardNeighbours(new_indices[n]) \subseteq Range(indices)

\* C2: expand_basis returns no index of its input and no index twice
C2_NoDuplicateAdmission ==
    (mode = "expand" /\ pc = "returned")
        => /\ Range(new_indices) \cap Range(indices) = {}
           /\ IsDistinct(new_indices)

C2_Witness ==
    /\ mode = "expand" /\ pc = "returned"
    /\ Len(new_indices) >= 3
    /\ \E a, b \in DOMAIN indices :
           /\ a # b
           /\ get_forward_neighbor(indices[a], 1) = get_forward_neighbor(indices[b], 2)
           /\ get_forward_neighbor(indices[a], 1) \in Range(new_indices)


\* C15: expand_basis(S) returns every forward neighbour idx + e_d of a column
\* idx of S that is not in S and has all its backward neighbours (one per
\* non-zero dimension of the forward neighbour) in S; for S = {(0,...,0)}
\* these are the unit indices
C15_ExpansionComplete ==
    (mode = "expand" /\ pc = "returned")
        => \A ii \in DOMAIN indices, dd \in 1..NVars :
               LET forward == get_forward_neighbor(indices[ii], dd)
               IN  (/\ forward \notin Range(indices)
                    /\ BackwardNeighbours(forward) \subseteq Range(indices))
                       => forward \in Range(new_indices)

\* ---------------------------------------------------------- restrict_basis
\* the coefficient values a fit can produce, on an integer scale: an exact
\* zero, a small one and a large negative one
CoefValues == {-2, 0, 1}

\* np.absolute
Abs(x) == IF x < 0 THEN -x ELSE x

\* line 837: I = np.where(np.absolute(coefficients) > tol)[0]
LargeCoefficients(idx, coef, t) == {j \in DOMAIN idx : Abs(coef[j]) > t}

\* a test for the constant column that takes every column of degree <= 1
LowDegreeColumns(idx) == {j \in DOMAIN idx : Degree(idx[j]) <= 1}

\* lines 839-840: J = np.where(indices.sum(axis=0) == 0)[0]
ZeroDegreeColumns(idx) == {j \in DOMAIN idx : Degree(idx[j]) = 0}

\* indices[:, I]: the columns at the positions I, in increasing position
RECURSIVE ColumnsFrom(_, _, _)
ColumnsFrom(s, I, j) ==
    IF j > Len(s) THEN <<>>
    ELSE (IF j \in I THEN <<s[j]>> ELSE <<>>) \o ColumnsFrom(s, I, j + 1)

\* a selection that returns the kept columns last first
ColumnsReversed(s, I) ==
    LET kept == ColumnsFrom(s, I, 1)
    IN  [k \in 1..Len(kept) |-> kept[Len(kept) + 1 - k]]

Columns(s, I) == ColumnsFrom(s, I, 1)

\* line 844 never yields a value: `indices[:J]` slices with a one-element
\* array (a TypeError where numpy refuses it as a slice bound) and
\* `restrict_indices` is a name the function never binds (a NameError)
Line844Errors == {"TypeError", "NameError"}

\* lines 836-845: every way the call can end
restrict_basis(idx, coef, t) ==
    LET I == LargeCoefficients(idx, coef, t)
        restricted_indices == Columns(idx, I)
        J == ZeroDegreeColumns(idx)
    IN  IF Cardinality(J) # 1
        THEN {[status |-> "raised", error |-> "AssertionError"]}
        ELSE IF J \subseteq I
        THEN {[status |-> "returned", indices |-> restricted_indices]}
        ELSE {[status |-> "raised", error |-> e] : e \in Line844Errors}

\* the indices an input of restrict_basis is drawn from
RestrictInputIndices == TotalDegreeIndices(1)

InitRestrict ==
    /\ mode = "restrict"
    /\ pc = "input"
    /\ indices = <<>>
    /\ coefficients = <<>>
    /\ tol \in 0..MaxTol
    /\ new_indices = <<>>
    /\ restricted = [status |-> "none"]
    /\ MergeIdle
    /\ PceIdle
    /\ FitIdle
    /\ SearchIdle
    /\ StepIdle

\* one more column of the input basis: an index not yet in it and its
\* coefficient
DrawColumn ==
    /\ mode = "restrict"
    /\ pc = "input"
    /\ Len(indices) < MaxLen
    /\ \E index \in RestrictInputIndices \ Range(indices), c \in CoefValues :
           /\ indices' = Append(indices, index)
           /\ coefficients' = Append(coefficients, c)
    /\ UNCHANGED <<mode, pc, tol, new_indices, restricted>>
    /\ UNCHANGED <<mergeVars, pceVars, fitVars, searchVars, stepVars>>

RestrictBasis ==
    /\ mode = "restrict"
    /\ pc = "input"
    /\ restricted' \in restrict_basis(indices, coefficients, tol)
    /\ pc' = "returned"
    /\ UNCHANGED <<mode, indices, coefficients, tol, new_indices>>
    /\ UNCHANGED <<mergeVars, pceVars, fitVars, searchVars, stepVars>>

\* restrict_basis applied to what it returned, with the coefficients of the
\* columns it kept and the same tolerance; new_indices keeps the first
\* result
RestrictAgain ==
    /\ mode = "restrict"
    /\ pc = "returned"
    /\ restricted.status = "returned"
    /\ LET I == LargeCoefficients(indices, coefficients, tol)
       IN  restricted' \in restrict_basis(restricted.indices,
                                          Columns(coefficients, I), tol)
    /\ new_indices' = restricted.indices
    /\ pc' = "again"
    /\ UNCHANGED <<mode, indices, coefficients, tol>>
    /\ UNCHANGED <<mergeVars, pceVars, fitVars, searchVars, stepVars>>

NextRestrict == DrawColumn \/ RestrictBasis \/ RestrictAgain

SpecRestrict == InitRestrict /\ [][NextRestrict]_vars

\* C3: restrict_basis on an index set holding the constant index exactly
\* once returns normally, and its output holds the constant index
C3_RestrictionKeepsAnchor ==
    (/\ mode = "restrict" /\ pc = "returned"
     /\ Cardinality(ZeroDegreeColumns(indices)) = 1)
        => /\ restricted.status = "returned"
           /\ ZeroIndex \in Range(restricted.indices)


\* C12: restrict_basis on an index set that does not hold the all-zero index
\* ends in the assertion failure of line 841 and returns no index set
C12_NoConstantIsAssertion ==
    (/\ mode = "restrict" /\ pc = "returned"
     /\ ZeroIndex \notin Range(indices))
        => restricted = [status |-> "raised", error |-> "AssertionError"]

\* two columns, none of them the constant one, one coefficient above the
\* tolerance and one not
C12_Witness ==
    /\ mode = "restrict" /\ pc = "returned"
    /\ Len(indices) = 2
    /\ ZeroIndex \notin Range(indices)
    /\ \E j, k \in DOMAIN coefficients :
           Abs(coefficients[j]) > tol /\ Abs(coefficients[k]) <= tol
    /\ restricted.status = "raised"

\* C13: restrict_basis applied to its own output, with the coefficients of
\* the columns it kept and the same tolerance, returns that output again:
\* the same columns in the same order
C13_RestrictionIdempotent ==
    (mode = "restrict" /\ pc = "again")
        => restricted = [status |-> "returned", indices |-> new_indices]

\* the first application dropped a column and kept two, the second was
\* applied to those two
C13_Witness ==
    /\ mode = "restrict" /\ pc = "again"
    /\ Len(indices) = 3
    /\ Len(new_indices) = 2
    /\ restricted.status = "returned"

\* ------------------------------------------------ compute_hyperbolic_indices
\* the order of the columns: by degree, then by key
Before(x, y) ==
    \/ Degree(x) < Degree(y)
    \/ Degree(x) = Degree(y) /\ hash_array(x) <= hash_array(y)

RECURSIVE InOrder(_)
InOrder(S) ==
    IF S = {} THEN <<>>
    ELSE LET first == CHOOSE x \in S : \A y \in S : Before(x, y)
         IN  <<first>> \o InOrder(S \ {first})

\* compute_hyperbolic_indices(num_vars, degree, 1): with strength 1 the
\* hyperbolic cross is the total-degree set; num_vars is NVars
compute_hyperbolic_indices(deg) == InOrder(TotalDegreeIndices(deg))

\* ------------------------------------------------------- the multi-QoI merge
\* sequences of pairwise different elements of S, of length exactly n
RECURSIVE DistinctSeqs(_, _)
DistinctSeqs(S, n) ==
    IF n = 0 THEN {<<>>}
    ELSE UNION {{Append(s, x) : x \in S \ Range(s)} :
                    s \in DistinctSeqs(S, n - 1)}

\* the coefficient a fit gives QoI ii for its jj-th column: the merge only
\* moves values, so pairwise different non-zero values show every move
CoefOf(ii, jj) == 10 * ii + jj

\* the index sets one QoI can bring to the merge: the best-degree set of the
\* degree sweep, or a duplicate-free set (the returned basis of the
\* expand-restrict search, the caller's set in approximate_fixed_pce)
MergeInputIndices == TotalDegreeIndices(1)

QoIIndexSets(d) ==
    IF d = "cross_validate_pce_degree"
    THEN {compute_hyperbolic_indices(deg) : deg \in 0..MaxDeg}
    ELSE UNION {DistinctSeqs(MergeInputIndices, n) : n \in 0..MaxMergeLen}

\* lines 764, 952, 1140: `if key not in indices_dict`
IsSeenKeyIgnored(dict, key) == TRUE

IsNewKey(dict, key) == key \notin DOMAIN dict

\* lines 762-766 (950-954, 1138-1142): register the columns of one QoI, from
\* column jj on; the state is the pair (indices_dict, unique_indices)
RECURSIVE RegisterFrom(_, _, _, _)
RegisterFrom(idx, jj, dict, unique) ==
    IF jj > Len(idx) THEN [dict |-> dict, unique |-> unique]
    ELSE LET key == hash_array(idx[jj])
         IN  IF IsNewKey(dict, key)
             THEN RegisterFrom(idx, jj + 1,
                               [k \in DOMAIN dict \cup {key} |->
                                   IF k = key THEN Len(unique) + 1 ELSE dict[k]],
                               Append(unique, idx[jj]))
             ELSE RegisterFrom(idx, jj + 1, dict, unique)

\* lines 773, 961, 1149: the row a coefficient is written to
ScatterRowByColumn(dict, key, jj) == jj

ScatterRow(dict, key, jj) == dict[key]

\* lines 770-773 (958-961, 1146-1149): all_coefs after the writes of QoI ii
\* from column jj on
RECURSIVE ScatterFrom(_, _, _, _, _, _)
ScatterFrom(idxs, cs, dict, ii, jj, all_coefs) ==
    IF ii > Len(idxs) THEN all_coefs
    ELSE IF jj > Len(idxs[ii])
    THEN ScatterFrom(idxs, cs, dict, ii + 1, 1, all_coefs)
    ELSE LET key == hash_array(idxs[ii][jj])
             row == ScatterRow(dict, key, jj)
         IN  ScatterFrom(idxs, cs, dict, ii, jj + 1,
                         [all_coefs EXCEPT ![row][ii] = cs[ii][jj]])

\* lines 769-773: np.zeros((unique_indices.shape[1], nqoi)), then the writes
MergedCoefficients(idxs, cs, dict, unique, n) ==
    ScatterFrom(idxs, cs, dict, 1, 1,
                [row \in 1..Len(unique) |-> [ii \in 1..n |-> 0]])

\* what the search of QoI ii returns beside its pce: the merge only collects
\* these, so one value per QoI shows where each ends up
ScoreOf(ii) == ii

DegreeOf(ii) == ii

RegParamOf(ii) == [kind |-> "alpha_", of_qoi |-> ii]

\* lines 776-778, 964-965 and 1152: the dictionary the driver wraps in
\* ApproximateResult
ApproximateResult(d, n) ==
    IF d = "cross_validate_pce_degree"
    THEN [approx |-> "pce",
          scores |-> [ii \in 1..n |-> ScoreOf(ii)],
          degrees |-> [ii \in 1..n |-> DegreeOf(ii)],
          reg_params |-> [ii \in 1..n |-> RegParamOf(ii)]]
    ELSE IF d = "expanding_basis_pce"
    THEN [approx |-> "pce",
          scores |-> [ii \in 1..n |-> ScoreOf(ii)],
          reg_params |-> [ii \in 1..n |-> RegParamOf(ii)]]
    ELSE [approx |-> "pce"]

InitMerge ==
    /\ mode = "merge"
    /\ pc = "qoi"
    /\ driver \in {"cross_validate_pce_degree", "expanding_basis_pce",
                   "approximate_fixed_pce"}
    /\ nqoi \in 1..MaxQoI
    /\ qoi_indices = <<>>
    /\ coefs = <<>>
    /\ indices_dict = <<>>
    /\ unique_indices = <<>>
    /\ BasisIdle
    /\ PceIdle
    /\ FitIdle
    /\ SearchIdle
    /\ StepIdle

\* one pass of the loop over the QoIs (lines 750-766, 939-954, 1131-1142):
\* the QoI's index set and coefficients are stored and its columns registered
QoIResult ==
    /\ mode = "merge"
    /\ pc = "qoi"
    /\ Len(qoi_indices) < nqoi
    /\ \E idx \in QoIIndexSets(driver) :
           LET ii == Len(qoi_indices) + 1
               reg == RegisterFrom(idx, 1, indices_dict, unique_indices)
           IN  /\ qoi_indices' = Append(qoi_indices, idx)
               /\ coefs' = Append(coefs, [jj \in 1..Len(idx) |-> CoefOf(ii, jj)])
               /\ indices_dict' = reg.dict
               /\ unique_indices' = reg.unique
    /\ UNCHANGED <<mode, pc, driver, nqoi, basisVars, pceVars, fitVars,
                   searchVars, stepVars>>

\* lines 768-775 (956-963, 1144-1151): the union and the zero-filled
\* coefficient matrix are given to the pce
MergeCoefficients ==
    /\ mode = "merge"
    /\ pc = "qoi"
    /\ Len(qoi_indices) = nqoi
    /\ pce_indices' = unique_indices
    /\ pce_coefficients' =
           MergedCoefficients(qoi_indices, coefs, indices_dict, unique_indices, nqoi)
    /\ result' = ApproximateResult(driver, nqoi)
    /\ pc' = "merged"
    /\ UNCHANGED <<mode, mergeVars, basisVars, fitVars, stepVars>>
    /\ UNCHANGED <<num_vars, min_degree, max_degree, degree, best_coef,
                   best_cv_score, best_degree, best_reg_param, prev_num_terms,
                   rng_state, np_random, fitted, lowest>>

NextMerge == QoIResult \/ MergeCoefficients

SpecMerge == InitMerge /\ [][NextMerge]_vars

\* the row of the union that holds index
UnionPosition(index) ==
    CHOOSE row \in DOMAIN pce_indices : pce_indices[row] = index

\* C4: after the merge, column q of the merged matrix holds q's j-th
\* coefficient in the row of q's j-th index, and exactly 0 in every row whose
\* index is not one of q's
C4_MergePreservesCoefficients ==
    (mode = "merge" /\ pc = "merged")
        => \A q \in 1..nqoi :
               /\ \A j \in DOMAIN qoi_indices[q] :
                      /\ qoi_indices[q][j] \in Range(pce_indices)
                      /\ pce_coefficients[UnionPosition(qoi_indices[q][j])][q]
                             = coefs[q][j]
               /\ \A row \in DOMAIN pce_indices :
                      pce_indices[row] \notin Range(qoi_indices[q])
                          => pce_coefficients[row][q] = 0

\* two QoIs share an index they hold at different positions, and each has an
\* index the other lacks
C4_Witness ==
    /\ mode = "merge" /\ pc = "merged" /\ nqoi >= 2
    /\ \E j \in DOMAIN qoi_indices[1], k \in DOMAIN qoi_indices[2] :
           j # k /\ qoi_indices[1][j] = qoi_indices[2][k]
    /\ Range(qoi_indices[1]) \ Range(qoi_indices[2]) # {}
    /\ Range(qoi_indices[2]) \ Range(qoi_indices[1]) # {}

\* the concatenation of the QoIs' index sets, in QoI order
RECURSIVE Concatenated(_, _)
Concatenated(idxs, ii) ==
    IF ii > Len(idxs) THEN <<>> ELSE idxs[ii] \o Concatenated(idxs, ii + 1)

\* s without the later occurrences of each element
RECURSIVE FirstOccurrences(_, _)
FirstOccurrences(s, n) ==
    IF n = 0 THEN <<>>
    ELSE LET before == FirstOccurrences(s, n - 1)
         IN  IF s[n] \in {s[k] : k \in 1..(n - 1)} THEN before
             ELSE Append(before, s[n])

\* C5: the merged index set holds every index of every QoI once, in
\* first-seen order, and the merged matrix has one row per union index and
\* one column per QoI
C5_MergedUnionFirstSeen ==
    (mode = "merge" /\ pc = "merged")
        => LET all == Concatenated(qoi_indices, 1)
           IN  /\ pce_indices = FirstOccurrences(all, Len(all))
               /\ IsDistinct(pce_indices)
               /\ DOMAIN pce_coefficients = 1..Len(pce_indices)
               /\ \A row \in DOMAIN pce_coefficients :
                      DOMAIN pce_coefficients[row] = 1..nqoi

\* the second QoI repeats an index of the first and adds a new one before it
C5_Witness ==
    /\ mode = "merge" /\ pc = "merged" /\ nqoi >= 2
    /\ Len(qoi_indices[2]) >= 2
    /\ qoi_indices[2][1] \notin Range(qoi_indices[1])
    /\ qoi_indices[2][2] \in Range(qoi_indices[1])
    /\ Len(pce_indices) < Len(qoi_indices[1]) + Len(qoi_indices[2])


\* C14: the result approximate_fixed_pce returns has, beside 'approx', a
\* 'reg_params' entry that holds the regularization parameter of each QoI's
\* fit, one per QoI
C14_FixedResultHasRegParams ==
    (mode = "merge" /\ pc = "merged" /\ driver = "approximate_fixed_pce")
        => /\ "approx" \in DOMAIN result
           /\ "reg_params" \in DOMAIN result
           /\ result.reg_params = [ii \in 1..nqoi |-> RegParamOf(ii)]

\* --------------------------------------------------------- fit_linear_model
\* Cross-validation scores are 0..MaxScore; the other values a score
\* variable can hold are coded outside that range.
NaN == 0 - 1
NoneScore == 0 - 2
\* np.finfo(np.double).max, line 793
FloatMax == MaxScore + 1
PosInf == MaxScore + 2

\* the scores a cross-validated fit can report: a root mean square, so
\* non-negative, or not finite
Scores == 0..MaxScore \cup {PosInf, NaN}

\* a comparison that takes NaN for the number that codes it
LtNaNOrdered(a, b) == a < b

\* a comparison that also holds between equal scores
LtOrTie(a, b) == a # NaN /\ b # NaN /\ a <= b

\* the float comparisons: every comparison with NaN is false
Lt(a, b) == a # NaN /\ b # NaN /\ a < b

Ge(a, b) == a # NaN /\ b # NaN /\ a >= b

\* lines 578-582: the solver classes, cross-validated one first
solvers ==
    [lasso |-> <<"LassoLarsCV", "LassoLars">>,
     lasso_grad |-> <<"LassoCV", "Lasso">>,
     lars |-> <<"LarsCV", "Lars">>,
     omp |-> <<"OrthogonalMatchingPursuitCV", "OrthogonalMatchingPursuit">>,
     lstsq |-> <<"LinearLeastSquaresCV", "LinearLeastSquares">>]

\* lines 716-719 (902-905): the solver types the searches document
DocumentedSolvers == {"lasso", "lars", "lasso_grad", "omp"}

\* the solver types drawn as inputs: the table's and one that is not in it
SolverTypes == DOMAIN solvers \cup {"ridge"}

\* the keyword options drawn as inputs: cv absent, False or a fold count,
\* max_iter absent or a count
OptionSets ==
    [cv : {"absent", "False", "folds"}, has_max_iter : {FALSE},
     max_iter : {0}]
    \cup [cv : {"absent", "False", "folds"}, has_max_iter : {TRUE},
          max_iter : 1..MaxIterOption]

\* the constructors: lines 522 and 542 for the two classes of this file,
\* sklearn's signatures for the others
AcceptsCv(class) ==
    class \in {"LassoLarsCV", "LassoCV", "LarsCV",
               "OrthogonalMatchingPursuitCV", "LinearLeastSquaresCV"}

AcceptsMaxIter(class) ==
    class \in {"LassoLarsCV", "LassoLars", "LassoCV", "Lasso", "LarsCV",
               "OrthogonalMatchingPursuitCV"}

ConstructorAccepts(class, kw) ==
    /\ kw.cv # "absent" => AcceptsCv(class)
    /\ kw.has_max_iter => AcceptsMaxIter(class)

\* lines 621-624: kwargs['max_iter'] as the omp constructor receives it
Min(a, b) == IF a < b THEN a ELSE b

MaxIterPassed(st, kw, ncols) ==
    IF st = "omp" /\ kw.has_max_iter THEN Min(kw.max_iter, ncols)
    ELSE kw.max_iter

\* A coefficient vector (one entry per column of the basis matrix) is held
\* as its length n, its first entry c0 (the constant term's), the value ce of
\* its entries at even positions (the odd positions after the first hold 1),
\* and the number of the fit_linear_model call that produced it.
CoefAt(v, j) == IF j = 1 THEN v.c0 ELSE IF j % 2 = 0 THEN v.ce ELSE 1

AsSequence(v) == [j \in 1..v.n |-> CoefAt(v, j)]

\* the coefficient vectors the backend can return for ncols columns: zero
\* or not in the constant term, sparse or dense in the others
CoefVectors(ncols, call) ==
    [n : {ncols}, c0 : {-2, 0}, ce : {-2, 0}, of_fit : {call}]

\* res of line 637: coef_, intercept_ and the cross-validation score
\* (lines 564-568: the least-squares classes of this file leave intercept_ 0)
BackendFits(class, ncols, call) ==
    [coef_ : CoefVectors(ncols, call),
     intercept_ : IF class \in {"LinearLeastSquaresCV", "LinearLeastSquares"}
                  THEN {0} ELSE {0, 1},
     score : Scores]

\* lines 672-678
HasCvScoreAttr(class) == class = "LinearLeastSquaresCV"

HasMsePath(class, patched) ==
    \/ class \in {"LassoLarsCV", "LassoCV", "LarsCV"}
    \/ class = "OrthogonalMatchingPursuitCV" /\ patched

\* lines 657-670: the kind of regularization parameter, "raise" when the
\* class is none of those the function knows
RegParamKind(class) ==
    IF class \in {"LassoLarsCV", "LinearLeastSquaresCV"} THEN "alpha_"
    ELSE IF class = "LarsCV" THEN "(alpha_, n_iter_)"
    ELSE IF class = "OrthogonalMatchingPursuitCV" THEN "n_nonzero_coefs_"
    ELSE "raise"

Raised(error, where) ==
    [status |-> "raised", error |-> error, where |-> where]

NoneParam == [kind |-> "None", of_fit |-> 0]

\* line 647: coef[0] += res.intercept_
AddIntercept(c0, intercept) == c0 + intercept

\* lines 638-654, for one result of the backend
AfterFit(class, kw, patched, res, call) ==
    LET coef == [res.coef_ EXCEPT !.c0 = AddIntercept(@, res.intercept_)]
    IN  IF kw.cv = "absent"
        THEN [status |-> "returned", coef |-> coef, cv_score |-> NoneScore,
              reg_param |-> NoneParam, class |-> class,
              max_iter |-> kw.max_iter]
        ELSE IF ~(HasCvScoreAttr(class) \/ HasMsePath(class, patched))
        THEN Raised("Exception", "extract_cross_validation_score")
        ELSE IF RegParamKind(class) = "raise"
        THEN Raised("Exception", "extract_best_regularization_parameters")
        ELSE [status |-> "returned", coef |-> coef, cv_score |-> res.score,
              reg_param |-> [kind |-> RegParamKind(class), of_fit |-> call],
              class |-> class, max_iter |-> kw.max_iter]

\* line 584: `if not solver_type in solvers`
IsSupported(st) == st \in DOMAIN solvers

\* lines 575-654: every way the call numbered `call`, on a basis matrix of
\* ncols columns, can end
fit_linear_model(ncols, st, kw, patched, call) ==
    IF ~IsSupported(st) THEN {Raised("Exception", "solver_type")}
    ELSE IF st = "lars" THEN {Raised("Exception", "lars")}
    ELSE LET kwargs == [kw EXCEPT !.max_iter = MaxIterPassed(st, kw, ncols)]
             solver_idx == IF kw.cv \in {"absent", "False"} THEN 2 ELSE 1
             class == solvers[st][solver_idx]
         IN  IF ~ConstructorAccepts(class, kwargs)
             THEN {Raised("TypeError", "constructor")}
             ELSE {AfterFit(class, kwargs, patched, res, call) :
                       res \in BackendFits(class, ncols, call)}

InitFit ==
    /\ mode = "fit"
    /\ pc = "call"
    /\ solver_type \in SolverTypes
    /\ options \in OptionSets
    /\ omp_patched \in BOOLEAN
    /\ fit_result = [status |-> "none"]
    /\ pce_indices \in {compute_hyperbolic_indices(deg) : deg \in 0..MaxDeg}
    /\ pce_coefficients = <<>>
    /\ BasisIdle
    /\ MergeIdle
    /\ SearchIdle
    /\ StepIdle

\* one call, on the basis matrix of the pce's current index set
FitLinearModel ==
    /\ mode = "fit"
    /\ pc = "call"
    /\ fit_result' \in
           fit_linear_model(Len(pce_indices), solver_type, options,
                            omp_patched, 1)
    /\ pc' = "returned"
    /\ UNCHANGED <<mode, solver_type, options, omp_patched>>
    /\ UNCHANGED <<basisVars, mergeVars, pceVars, searchVars, stepVars>>

NextFit == FitLinearModel

SpecFit == InitFit /\ [][NextFit]_vars

\* C10: with cross-validation options, every documented solver type makes
\* fit_linear_model return coefficients, a score and a regularization
\* parameter of the solver's kind
C10_DocumentedSolversReturn ==
    (/\ mode = "fit" /\ pc = "returned"
     /\ solver_type \in DocumentedSolvers
     /\ options.cv = "folds"
     /\ omp_patched)
        => /\ fit_result.status = "returned"
           /\ fit_result.cv_score # NoneScore
           /\ fit_result.reg_param.kind # "None"


\* ------------------------------------------------ _cross_validate_pce_degree
\* line 804: the cap on the number of terms
TermCap == 100000

\* A complete hyperbolic index set is held in the sweep as its parameters
\* (the strength is 1): the sets past the term cap have too many columns to
\* list.  degree -1 stands for the pce's index set before the sweep.
HyperbolicIndices(n, deg) == [num_vars |-> n, degree |-> deg]

\* counts above this all fail the cap test of lines 804-805 alike, and are
\* not told apart
CountLimit == 2 * TermCap

\* pce.num_terms() for the total-degree set: C(n + deg, deg)
RECURSIVE NumHyperbolicTerms(_, _)
NumHyperbolicTerms(n, deg) ==
    IF deg < 0 THEN 0
    ELSE IF deg = 0 THEN 1
    ELSE LET below == NumHyperbolicTerms(n, deg - 1)
         IN  IF below > CountLimit THEN below
             ELSE (below * (n + deg)) \div deg

pce_num_terms(idx) == NumHyperbolicTerms(idx.num_vars, idx.degree)

\* whether the set holds the indices of total degree deg: with strength 1
\* it holds every index whose degree is at most its own
HyperbolicContains(idx, deg) == 0 <= deg /\ deg <= idx.degree

\* best_coef = None (line 792) and the unbound name best_reg_param
NoneCoef == [n |-> 0, c0 |-> 0, ce |-> 0, of_fit |-> 0]

Unbound == [kind |-> "unbound", of_fit |-> 0]

\* no fit reported a score yet
NoLowest == [score |-> NoneScore, degree |-> 0 - 1, of_fit |-> 0]

\* the lowest score reported so far and the first fit that reported it, NaN
\* scores left out: kept beside the code's own tracking, to state the claims
LowestAfter(low, score, deg, call) ==
    IF score \in {NaN, NoneScore} THEN low
    ELSE IF low.score = NoneScore \/ score < low.score
    THEN [score |-> score, degree |-> deg, of_fit |-> call]
    ELSE low

\* the random state after a fit has drawn its folds from it
AdvanceRng(s) == s + 1

\* a search that would not set the saved random state again after a fit
RngNotRestored(out, s) == AdvanceRng(s)

\* a fit_linear_model that would test the solver type only after the backend
\* has run: every raise leaves the random state advanced
RngAfterLateCheck(out, s) ==
    IF out.status = "raised" THEN AdvanceRng(s) ELSE s

\* the random state a raising fit_linear_model call leaves, started in s:
\* lines 657-678 raise after the backend's fit, the others before it
RngAfterFit(out, s) ==
    IF /\ out.status = "raised"
       /\ out.where \in {"extract_cross_validation_score",
                         "extract_best_regularization_parameters"}
    THEN AdvanceRng(s)
    ELSE s

\* a cap that stops at every count above it
OverCapAlways(nt, prev) == nt > TermCap

\* lines 804-805
OverCap(nt, prev) == nt > TermCap /\ TermCap - prev < nt - TermCap

\* line 819
EarlyStop(score, best, deg, bestdeg) == Ge(score, best) /\ deg - bestdeg > 1

\* an update rule that replaces the best fit on a tie as well
ImprovesOrTies(score, best) == score # NaN /\ best # NaN /\ score <= best

\* line 821
Improves(score, best) == Lt(score, best)

\* the options drawn for the sweep: max_iter absent or the largest count
SweepOptionSets ==
    {o \in OptionSets : o.has_max_iter => o.max_iter = MaxIterOption}

\* the start of _cross_validate_pce_degree, max_degree drawn from
\* 0..max_max_degree and solver_type from solver_types
InitSweepOver(max_max_degree, solver_types) ==
    /\ mode = "sweep"
    /\ pc = "loop"
    /\ num_vars \in {NVars, BigVars, HugeVars}
    /\ min_degree \in 0..(MaxSweepDegree + 1)
    /\ max_degree \in 0..max_max_degree
    /\ solver_type \in solver_types
    /\ options \in SweepOptionSets
    \* the sklearn version matters to the omp solver only
    /\ omp_patched \in (IF solver_type = "omp" THEN BOOLEAN ELSE {TRUE})
    /\ fit_result = [status |-> "none"]
    /\ pce_indices = HyperbolicIndices(num_vars, 0 - 1)
    /\ pce_coefficients = NoneCoef
    \* lines 792-799
    /\ best_coef = NoneCoef
    /\ best_cv_score = FloatMax
    /\ best_degree = min_degree
    /\ best_reg_param = Unbound
    /\ prev_num_terms = 0
    /\ np_random = 0
    /\ rng_state = 0
    /\ degree = min_degree
    /\ fitted = <<>>
    /\ lowest = NoLowest
    /\ result = [status |-> "none"]
    /\ BasisIdle
    /\ MergeIdle
    /\ StepIdle

InitSweep == InitSweepOver(MaxSweepDegree, SolverTypes)

\* lines 800-803: the next degree of the loop and its index set
SweepInLoop == mode = "sweep" /\ pc = "loop" /\ degree <= max_degree

\* lines 804-806: the term cap ends the loop before the fit
SweepCapStop ==
    /\ SweepInLoop
    /\ OverCap(NumHyperbolicTerms(num_vars, degree), prev_num_terms)
    /\ pce_indices' = HyperbolicIndices(num_vars, degree)
    /\ pc' = "finish"
    /\ UNCHANGED <<mode, pce_coefficients, basisVars, mergeVars, fitVars,
                   searchVars, stepVars>>

\* lines 804-813: the cap lets this degree through, and the ways its fit can
\* end
SweepFits ==
    /\ SweepInLoop
    /\ ~OverCap(NumHyperbolicTerms(num_vars, degree), prev_num_terms)

FitOutcomes ==
    fit_linear_model(NumHyperbolicTerms(num_vars, degree), solver_type,
                     options, omp_patched, Len(fitted) + 1)

\* lines 808-814: the fit of this degree, from the saved random state, ends
\* as `out`; the call is recorded, the random state is the saved one again
\* after it
SweepFitCall(out) ==
    /\ pce_indices' = HyperbolicIndices(num_vars, degree)
    /\ fit_result' = out
    /\ fitted' = Append(fitted, [degree |-> degree, rng |-> rng_state])
    /\ np_random' = RngAfterFit(out, rng_state)
    /\ UNCHANGED <<mode, basisVars, mergeVars, solver_type, options,
                   omp_patched, num_vars, min_degree, max_degree, rng_state,
                   stepVars>>

\* fit_linear_model raises: the sweep ends with that error
SweepFitRaises ==
    /\ SweepFits
    /\ \E out \in FitOutcomes :
        /\ SweepFitCall(out)
        /\ out.status = "raised"
        /\ result' = out
        /\ pc' = "done"
        /\ UNCHANGED <<pce_coefficients, degree, best_coef, best_cv_score,
                       best_degree, best_reg_param, prev_num_terms, lowest>>

\* without the cv option the score is None, and line 819 compares it
SweepScoreIsNone ==
    /\ SweepFits
    /\ \E out \in FitOutcomes :
        /\ SweepFitCall(out)
        /\ out.status = "returned"
        /\ out.cv_score = NoneScore
        /\ pce_coefficients' = out.coef
        /\ result' = Raised("TypeError", "line 819")
        /\ pc' = "done"
        /\ UNCHANGED <<degree, best_coef, best_cv_score, best_degree,
                       best_reg_param, prev_num_terms, lowest>>

\* lines 815-820: the early stop
SweepEarlyStop ==
    /\ SweepFits
    /\ \E out \in FitOutcomes :
        /\ SweepFitCall(out)
        /\ out.status = "returned"
        /\ out.cv_score # NoneScore
        /\ EarlyStop(out.cv_score, best_cv_score, degree, best_degree)
        /\ pce_coefficients' = out.coef
        /\ lowest' = LowestAfter(lowest, out.cv_score, degree, Len(fitted) + 1)
        /\ pc' = "finish"
        /\ UNCHANGED <<degree, best_coef, best_cv_score, best_degree,
                       best_reg_param, prev_num_terms, result>>

\* lines 815-826: the best fit is updated and the loop goes on
SweepNextDegree ==
    /\ SweepFits
    /\ \E out \in FitOutcomes :
        /\ SweepFitCall(out)
        /\ out.status = "returned"
        /\ out.cv_score # NoneScore
        /\ ~EarlyStop(out.cv_score, best_cv_score, degree, best_degree)
        /\ pce_coefficients' = out.coef
        /\ lowest' = LowestAfter(lowest, out.cv_score, degree, Len(fitted) + 1)
        /\ IF Improves(out.cv_score, best_cv_score)
           THEN /\ best_cv_score' = out.cv_score
                /\ best_coef' = out.coef
                /\ best_degree' = degree
                /\ best_reg_param' = out.reg_param
           ELSE UNCHANGED <<best_cv_score, best_coef, best_degree,
                            best_reg_param>>
        /\ prev_num_terms' = NumHyperbolicTerms(num_vars, degree)
        /\ degree' = degree + 1
        /\ UNCHANGED <<pc, result>>

\* pce.set_coefficients(None) fails on the None (line 830); were it to
\* pass, line 833 reads best_reg_param, which no line has bound
NoBestErrors == {"AttributeError", "UnboundLocalError"}

\* a return that leaves the pce on the index set of the last degree
FinalIndicesKept(idx, n, deg) == idx

\* lines 828-829
FinalIndices(idx, n, deg) == HyperbolicIndices(n, deg)

\* lines 828-833, after the loop ran out or was left by a break
SweepFinish ==
    /\ mode = "sweep"
    /\ pc = "finish" \/ (pc = "loop" /\ degree > max_degree)
    /\ pce_indices' = FinalIndices(pce_indices, num_vars, best_degree)
    /\ IF best_coef = NoneCoef
       THEN /\ \E e \in NoBestErrors : result' = Raised(e, "lines 830-833")
            /\ UNCHANGED pce_coefficients
       ELSE /\ pce_coefficients' = best_coef
            /\ result' = [status |-> "returned", cv_score |-> best_cv_score,
                          degree |-> best_degree, reg_param |-> best_reg_param]
    /\ pc' = "done"
    /\ UNCHANGED <<mode, basisVars, mergeVars, fitVars, num_vars, min_degree,
                   max_degree, degree, best_coef, best_cv_score, best_degree,
                   best_reg_param, prev_num_terms, rng_state, np_random,
                   fitted, lowest, stepVars>>

NextSweep ==
    \/ SweepCapStop
    \/ SweepFitRaises
    \/ SweepScoreIsNone
    \/ SweepEarlyStop
    \/ SweepNextDegree
    \/ SweepFinish

SpecSweep == InitSweep /\ [][NextSweep]_vars

\* the sweep over one more degree, for a solver type whose fits return, one
\* whose fits raise and one that is not in the table
LongSweepSolverTypes == {"lstsq", "lars", "ridge"}

InitLongSweep == InitSweepOver(MaxSweepDegree + 1, LongSweepSolverTypes)

SpecLongSweep == InitLongSweep /\ [][NextSweep]_vars


\* C7: from one step of the sweep to the next best_cv_score never increases,
\* and best_cv_score, best_degree, best_coef and best_reg_param change only
\* in a loop iteration whose fit returned a score strictly lower than
\* best_cv_score
C7_MonotonicTracking ==
    [][mode = "sweep" =>
          /\ best_cv_score' <= best_cv_score
          /\ <<best_cv_score, best_degree, best_coef, best_reg_param>>'
                 # <<best_cv_score, best_degree, best_coef, best_reg_param>>
             => /\ pc = "loop"
                /\ fit_result'.status = "returned"
                /\ fit_result'.cv_score # NoneScore
                /\ Lt(fit_result'.cv_score, best_cv_score)
                /\ best_cv_score' = fit_result'.cv_score]_vars

\* the best fit was replaced once, and the last fit tied with it and left
\* it alone
C7_Witness ==
    /\ mode = "sweep"
    /\ Len(fitted) >= 3
    /\ best_coef.of_fit = 2
    /\ fit_result.status = "returned"
    /\ fit_result.coef.of_fit = 3
    /\ fit_result.cv_score = best_cv_score

C9_NoFiniteScoreIsAnError ==
    (mode = "sweep" /\ pc = "done" /\ lowest.score \notin 0..MaxScore)
        => result.status = "raised"

\* two degrees were fitted, both scores were infinite or NaN, and the lines
\* after the loop raised
C9_Witness ==
    /\ mode = "sweep" /\ pc = "done"
    /\ Len(fitted) >= 2
    /\ fit_result.status = "returned"
    /\ fit_result.cv_score = NaN
    /\ lowest.score = PosInf
    /\ result.status = "raised"


\* C20: every fit of the sweep is at the next degree in line (min_degree,
\* min_degree + 1, ...) and at most at best_degree + 2, and, where a further
\* degree is left, the sweep stops right after the fit at `degree` exactly
\* when its score is not lower than best_cv_score and
\* degree - best_degree > 1
C20_EarlyStopRule ==
    [][(/\ mode = "sweep"
        /\ fitted' # fitted
        /\ fit_result'.status = "returned"
        /\ fit_result'.cv_score # NoneScore)
           => /\ degree = min_degree + Len(fitted)
              /\ degree <= best_degree + 2
              /\ degree < max_degree
                     => (pc' = "finish"
                            <=> (/\ ~Lt(fit_result'.cv_score, best_cv_score)
                                 /\ degree - best_degree > 1))]_vars

\* ------------------------------------------------------ _expanding_basis_pce
\* lines 977-985: the first degree, from 2 on, whose complete index set has
\* more than max_terms terms
RECURSIVE SeedBreakDegree(_, _)
SeedBreakDegree(deg, max_terms) ==
    IF Len(compute_hyperbolic_indices(deg)) > max_terms THEN deg
    ELSE SeedBreakDegree(deg + 1, max_terms)

\* prev_num_terms when the loop of lines 979-985 is left at degree deg
SeedPrevNumTerms(deg) ==
    IF deg = 2 THEN 0 ELSE Len(compute_hyperbolic_indices(deg - 1))

\* lines 977-989: the degree of the initial index set
SeedDegree(max_terms) ==
    LET deg == SeedBreakDegree(2, max_terms)
        terms == Len(compute_hyperbolic_indices(deg))
    IN  IF Abs(terms - max_terms) > Abs(SeedPrevNumTerms(deg) - max_terms)
        THEN deg - 1
        ELSE deg

\* lines 1024-1029: steps rounds of expand_basis and np.hstack; hstack
\* refuses an empty expansion, which has one axis only
RECURSIVE ExpandSteps(_, _)
ExpandSteps(idx, steps) ==
    IF steps = 0 THEN [status |-> "expanded", indices |-> idx]
    ELSE LET more == expand_basis(idx)
         IN  IF more = <<>> THEN Raised("ValueError", "line 1027")
             ELSE ExpandSteps(idx \o more, steps - 1)

\* an expansion loop that counts from 1: its body runs once less
OneStepLess == Min(max_num_expansion_steps, best_num_expansion_steps) - 1

\* lines 1024-1025: how often the body of the expansion loop runs
NumExpansionSteps == Min(max_num_expansion_steps, best_num_expansion_steps)

\* the largest total degree of the columns
LargestDegree(idx) ==
    CHOOSE d \in {Degree(idx[j]) : j \in DOMAIN idx} :
        \A j \in DOMAIN idx : Degree(idx[j]) <= d

\* a cleanup that keeps every row
AllRows(coef) == 1..coef.n

\* line 1073: I = np.nonzero(best_coef[:, 0])[0]
NonZeroRows(coef) == {j \in 1..coef.n : CoefAt(coef, j) # 0}

\* the tolerances drawn for the search: nothing in the code confines the
\* argument to the non-negative ones
RestrictionTols == (0 - 1)..MaxTol

\* the options drawn for the search: cv absent, False or a fold count
SearchOptionSets == {o \in OptionSets : ~o.has_max_iter}

\* the solver types drawn for the search: one whose fits return, one whose
\* fits raise after the backend has run, one that is not in the table
SearchSolverTypes == {"lasso", "lasso_grad", "ridge"}

\* the start of _expanding_basis_pce, max_num_terms drawn from max_terms
InitSearchOver(max_terms) ==
    /\ mode = "search"
    /\ pc = "seed"
    /\ num_vars = NVars
    /\ max_num_terms \in max_terms
    /\ restriction_tol \in RestrictionTols
    /\ solver_type \in SearchSolverTypes
    /\ options \in SearchOptionSets
    /\ omp_patched = TRUE
    /\ fit_result = [status |-> "none"]
    /\ pce_indices = <<>>
    /\ pce_coefficients = NoneCoef
    /\ np_random = 0
    /\ rng_state = 0
    /\ fitted = <<>>
    /\ lowest = NoLowest
    /\ result = [status |-> "none"]
    \* names the function has not bound yet
    /\ degree = 0
    /\ prev_num_terms = 0
    /\ num_terms = 0
    /\ best_coef = NoneCoef
    /\ best_cv_score = NoneScore
    /\ best_reg_param = Unbound
    /\ best_indices = <<>>
    /\ best_cv_score_iter = NoneScore
    /\ best_coef_iter = NoneCoef
    /\ best_indices_iter = <<>>
    /\ best_reg_param_iter = Unbound
    /\ best_num_expansion_steps = 0
    /\ best_num_expansion_steps_iter = 0
    /\ max_num_expansion_steps = 0
    /\ num_expansion_steps = 0
    /\ it = 0
    /\ best_it = 0
    \* not names of this function
    /\ min_degree = 0
    /\ max_degree = 0
    /\ best_degree = 0
    /\ indices = <<>>
    /\ new_indices = <<>>
    /\ coefficients = <<>>
    /\ tol = 0
    /\ restricted = [status |-> "none"]
    /\ MergeIdle

InitSearch == InitSearchOver({1, MaxNumTerms})

\* what no step of the search writes
searchInputs ==
    <<mode, num_vars, max_num_terms, restriction_tol, solver_type, options,
      omp_patched, min_degree, max_degree, best_degree, new_indices,
      coefficients, tol, restricted, mergeVars>>

\* the names the inner loop leaves alone
outerLocals ==
    <<best_coef, best_cv_score, best_reg_param, best_indices,
      best_num_expansion_steps, it, best_it, degree, prev_num_terms,
      rng_state>>

\* the names lines 1046-1051 bind
iterBest ==
    <<best_cv_score_iter, best_coef_iter, best_indices_iter,
      best_reg_param_iter, best_num_expansion_steps_iter>>

\* lines 974-1001: the initial index set `seed` and the call that fits it,
\* ending as `out`
SearchSeedCall(seed, out) ==
    /\ degree' = SeedDegree(max_num_terms)
    /\ prev_num_terms' =
           SeedPrevNumTerms(SeedBreakDegree(2, max_num_terms))
    /\ indices' =
           compute_hyperbolic_indices(SeedBreakDegree(2, max_num_terms))
    /\ num_terms' = Len(indices')
    /\ pce_indices' = seed
    /\ rng_state' = np_random
    /\ fitted' = <<[n |-> Len(seed), rng |-> np_random]>>
    /\ fit_result' = out
    /\ np_random' = RngAfterFit(out, np_random)
    /\ UNCHANGED searchInputs

\* the first fit raises
SearchSeedRaises ==
    /\ mode = "search"
    /\ pc = "seed"
    /\ LET seed == compute_hyperbolic_indices(SeedDegree(max_num_terms))
       IN  \E out \in fit_linear_model(Len(seed), solver_type, options,
                                       omp_patched, 1) :
               /\ out.status = "raised"
               /\ SearchSeedCall(seed, out)
               /\ result' = out
               /\ pc' = "done"
    /\ UNCHANGED <<pce_coefficients, lowest, best_coef, best_cv_score,
                   best_reg_param, best_indices, best_num_expansion_steps,
                   it, best_it, iterBest, max_num_expansion_steps,
                   num_expansion_steps>>

\* lines 974-1016: up to the first pass of the inner loop
SearchSeed ==
    /\ mode = "search"
    /\ pc = "seed"
    /\ LET seed == compute_hyperbolic_indices(SeedDegree(max_num_terms))
       IN  \E out \in fit_linear_model(Len(seed), solver_type, options,
                                       omp_patched, 1) :
               /\ out.status = "returned"
               /\ SearchSeedCall(seed, out)
               /\ pce_coefficients' = out.coef
               /\ best_coef' = out.coef
               /\ best_cv_score' = out.cv_score
               /\ best_reg_param' = out.reg_param
               /\ best_indices' = seed
               /\ best_cv_score_iter' = out.cv_score
               /\ lowest' = LowestAfter(lowest, out.cv_score, Len(seed), 1)
    /\ best_num_expansion_steps' = 3
    /\ it' = 0
    /\ best_it' = 0
    /\ max_num_expansion_steps' = 1
    /\ best_num_expansion_steps_iter' = 3
    /\ pc' = "inner"
    /\ UNCHANGED <<result, best_coef_iter, best_indices_iter,
                   best_reg_param_iter, num_expansion_steps>>

\* a pass of the inner loop starts, and its index set is within the bound
SearchInInner ==
    /\ mode = "search"
    /\ pc = "inner"
    /\ LargestDegree(pce_indices) + NumExpansionSteps <= MaxSearchDegree

\* line 1022
RestrictOutcomes ==
    restrict_basis(pce_indices, AsSequence(pce_coefficients), restriction_tol)

\* lines 1021-1023: restrict_basis raises
SearchRestrictRaises ==
    /\ SearchInInner
    /\ \E r \in RestrictOutcomes :
        /\ r.status = "raised"
        /\ result' = Raised(r.error, "restrict_basis")
    /\ num_expansion_steps' = 0
    /\ pc' = "done"
    /\ UNCHANGED <<searchInputs, outerLocals, iterBest, indices, pceVars,
                   fit_result, np_random, fitted, lowest, num_terms,
                   max_num_expansion_steps>>

\* lines 1021-1029: restrict_basis returns, its value is bound to the local
\* `indices`, and pce.indices is expanded
SearchExpand ==
    /\ SearchInInner
    /\ \E r \in RestrictOutcomes :
        /\ r.status = "returned"
        /\ indices' = r.indices
    /\ LET expanded == ExpandSteps(pce_indices, NumExpansionSteps)
       IN  IF expanded.status = "raised"
           THEN /\ result' = expanded
                /\ pc' = "done"
                /\ num_expansion_steps' = 0
                /\ UNCHANGED <<pce_indices, num_terms>>
           ELSE /\ pce_indices' = expanded.indices
                /\ num_terms' = Len(expanded.indices)
                /\ num_expansion_steps' = NumExpansionSteps
                /\ pc' = "fit"
                /\ UNCHANGED result
    /\ UNCHANGED <<searchInputs, outerLocals, iterBest, pce_coefficients,
                   fit_result, np_random, fitted, lowest,
                   max_num_expansion_steps>>

SearchInFit == mode = "search" /\ pc = "fit"

\* lines 1034-1037: the ways the fit of this pass can end
StepOutcomes ==
    fit_linear_model(Len(pce_indices), solver_type, options, omp_patched,
                     Len(fitted) + 1)

\* lines 1034-1038: the fit of one pass, ending as `out`
SearchFitCall(out) ==
    /\ fit_result' = out
    /\ fitted' = Append(fitted, [n |-> Len(pce_indices), rng |-> rng_state])
    /\ np_random' = RngAfterFit(out, rng_state)
    /\ UNCHANGED <<searchInputs, outerLocals, indices, pce_indices, num_terms,
                   num_expansion_steps>>

\* lines 1034-1046: the pass ends in an error: fit_linear_model raises, or
\* the scores are None (the cv option is absent) and line 1046 compares them
SearchFitFails ==
    /\ SearchInFit
    /\ \E out \in StepOutcomes :
        /\ SearchFitCall(out)
        /\ IF out.status = "raised"
           THEN /\ result' = out
                /\ UNCHANGED pce_coefficients
           ELSE /\ out.cv_score = NoneScore \/ best_cv_score_iter = NoneScore
                /\ result' = Raised("TypeError", "line 1046")
                /\ pce_coefficients' = out.coef
    /\ pc' = "done"
    /\ UNCHANGED <<lowest, iterBest, max_num_expansion_steps>>

\* an inner loop that is left at the third pass only
BreaksAtDepthOnly == max_num_expansion_steps >= 3

\* lines 1053-1056: the two tests that leave the inner loop
InnerLoopBreaks ==
    num_terms >= max_num_terms \/ max_num_expansion_steps >= 3

\* lines 1034-1058: the fit of one pass of the inner loop and what follows it
SearchInnerPass ==
    /\ SearchInFit
    /\ best_cv_score_iter # NoneScore
    /\ \E out \in StepOutcomes :
        /\ out.status = "returned"
        /\ out.cv_score # NoneScore
        /\ SearchFitCall(out)
        /\ pce_coefficients' = out.coef
        /\ lowest' = LowestAfter(lowest, out.cv_score, Len(pce_indices),
                                 Len(fitted) + 1)
        /\ IF Lt(out.cv_score, best_cv_score_iter)
           THEN /\ best_cv_score_iter' = out.cv_score
                /\ best_indices_iter' = pce_indices
                /\ best_coef_iter' = out.coef
                /\ best_num_expansion_steps_iter' = num_expansion_steps
                /\ best_reg_param_iter' = out.reg_param
           ELSE UNCHANGED iterBest
    /\ IF InnerLoopBreaks
       THEN /\ pc' = "outer"
            /\ UNCHANGED max_num_expansion_steps
       ELSE /\ pc' = "inner"
            /\ max_num_expansion_steps' = max_num_expansion_steps + 1
    /\ UNCHANGED result

\* lines 1060-1070 and 1015-1016: the end of a pass of the outer loop, and
\* the start of the next one
SearchOuterPass ==
    /\ mode = "search"
    /\ pc = "outer"
    /\ IF Lt(best_cv_score_iter, best_cv_score)
       THEN /\ best_cv_score' = best_cv_score_iter
            /\ best_coef' = best_coef_iter
            /\ best_indices' = best_indices_iter
            /\ best_num_expansion_steps' = best_num_expansion_steps_iter
            /\ best_reg_param' = best_reg_param_iter
            /\ best_it' = it
       ELSE UNCHANGED <<best_cv_score, best_coef, best_indices,
                        best_num_expansion_steps, best_reg_param, best_it>>
    /\ IF ~Lt(best_cv_score_iter, best_cv_score) /\ it - best_it >= 2
       THEN /\ pc' = "cleanup"
            /\ UNCHANGED <<it, max_num_expansion_steps,
                           best_num_expansion_steps_iter>>
       ELSE /\ pc' = "inner"
            /\ it' = it + 1
            /\ max_num_expansion_steps' = 1
            /\ best_num_expansion_steps_iter' = best_num_expansion_steps'
    /\ UNCHANGED <<searchInputs, indices, pceVars, fit_result, np_random,
                   fitted, lowest, result, degree, prev_num_terms, rng_state,
                   num_terms, num_expansion_steps, best_cv_score_iter,
                   best_coef_iter, best_indices_iter, best_reg_param_iter>>

\* lines 1072-1080: the rows of best_coef that are zero are dropped
SearchFinish ==
    /\ mode = "search"
    /\ pc = "cleanup"
    /\ pce_indices' = Columns(best_indices, NonZeroRows(best_coef))
    /\ pce_coefficients' =
           Columns(AsSequence(best_coef), NonZeroRows(best_coef))
    /\ result' = [status |-> "returned", cv_score |-> best_cv_score,
                  reg_param |-> best_reg_param]
    /\ pc' = "done"
    /\ UNCHANGED <<searchInputs, outerLocals, iterBest, indices, fit_result,
                   np_random, fitted, lowest, num_terms,
                   max_num_expansion_steps, num_expansion_steps>>

NextSearch ==
    \/ SearchSeedRaises
    \/ SearchSeed
    \/ SearchRestrictRaises
    \/ SearchExpand
    \/ SearchFitFails
    \/ SearchInnerPass
    \/ SearchOuterPass
    \/ SearchFinish

SpecSearch == InitSearch /\ [][NextSearch]_vars

\* lines 974-1016 alone, for every max_num_terms of the bound: the choice of
\* the initial index set and its fit
InitSeed == InitSearchOver(1..MaxNumTerms)

NextSeed == SearchSeedRaises \/ SearchSeed

SpecSeed == InitSeed /\ [][NextSeed]_vars


\* ----------------------------------------------------------- both searches
InitSearches == InitSweep \/ InitSearch

NextSearches == NextSweep \/ NextSearch

SpecSearches == InitSearches /\ [][NextSearches]_vars

\* C6: the index set of a search that returned normally, the degree sweep or
\* the expand-restrict search after its cleanup of zero coefficients, holds
\* the all-zero index
C6_ReturnedBasisHasConstant ==
    (pc = "done" /\ result.status = "returned")
        => /\ mode = "sweep" => HyperbolicContains(pce_indices, 0)
           /\ mode = "search" => ZeroIndex \in Range(pce_indices)



\* ------------------------------------------------------------ solver errors
\* C11: when solver_type is not in the solver table, the one call of
\* fit_linear_model a search makes raises the configuration error of lines
\* 584-589, no backend has drawn from the random state, and the search is
\* over with that error after this single call
C11_UnsupportedSolverEndsSearch ==
    (/\ mode \in {"sweep", "search"}
     /\ ~IsSupported(solver_type)
     /\ Len(fitted) >= 1)
        => /\ pc = "done"
           /\ Len(fitted) = 1
           /\ fit_result = Raised("Exception", "solver_type")
           /\ result = fit_result
           /\ np_random = rng_state

\* the expand-restrict search was called with cross-validation options and
\* 'ridge', and its first fit raised
C11_Witness ==
    /\ mode = "search" /\ pc = "done"
    /\ solver_type = "ridge"
    /\ options.cv = "folds"
    /\ Len(fitted) = 1
    /\ result.status = "raised"
    /\ result.where = "solver_type"



\* ------------------------------------------------- claims about the search
\* the restricted index sets the fitted set of a pass could be built from:
\* the value line 1022 bound to `indices` (the restriction of the pce's
\* current index set), and the restriction of the best basis so far
RestrictedBases ==
    {indices}
        \cup {r.indices :
                 r \in {o \in restrict_basis(best_indices,
                                             AsSequence(best_coef),
                                             restriction_tol) :
                            o.status = "returned"}}

\* num_expansion_steps rounds of expand_basis on a restricted set
ExpandedFrom(base) == ExpandSteps(base, num_expansion_steps)

\* C16: in every pass of the inner loop the index set that is fitted is the
\* restricted basis (indices whose |coefficient| <= restriction_tol dropped,
\* the constant kept) expanded min(max_num_expansion_steps,
\* best_num_expansion_steps) times, so that an index the restriction dropped
\* and the expansion did not bring back is not fitted
C16_FittedSetIsExpandedRestriction ==
    (/\ SearchInFit
     /\ \E base \in RestrictedBases : ExpandedFrom(base).status = "expanded")
        => \E base \in RestrictedBases :
               /\ ExpandedFrom(base).status = "expanded"
               /\ pce_indices = ExpandedFrom(base).indices


\* the outer iterations that ran since the best fit was last replaced, when
\* the outer loop is left: iterations 0..it have run, and the best fit is
\* the seed fit (call 1) or the one adopted in iteration best_it
NonImprovingRun ==
    IF best_coef.of_fit = 1 THEN it + 1 ELSE it - best_it

\* C17: the outer loop is left at the end of the second consecutive outer
\* iteration that did not improve the best score, whatever the scores are,
\* also when no iteration improves on the seed fit (stated for the searches
\* whose best score is finite)
C17_StopsAfterTwoStalls ==
    (mode = "search" /\ pc = "cleanup" /\ best_cv_score \in 0..MaxScore)
        => NonImprovingRun = 2


\* the number of terms of the complete index set of degree deg
SeedTerms(deg) == Len(compute_hyperbolic_indices(deg))

\* the degrees the initial index set can be chosen from: past the first one
\* with more than max_num_terms terms the counts only move away
SeedCandidates == 1..SeedBreakDegree(2, max_num_terms)

\* C18: the initial index set of the search is the complete set of the
\* degree (>= 1) whose number of terms is closest to max_num_terms, and it
\* has at most max_num_terms terms whenever some degree >= 1 has
C18_SeedClosestWithinLimit ==
    (mode = "search" /\ pc = "inner" /\ Len(fitted) = 1)
        => /\ pce_indices = compute_hyperbolic_indices(degree)
           /\ fitted[1].n = SeedTerms(degree)
           /\ \A deg \in SeedCandidates :
                  Abs(SeedTerms(degree) - max_num_terms)
                      <= Abs(SeedTerms(deg) - max_num_terms)
           /\ (\E deg \in SeedCandidates : SeedTerms(deg) <= max_num_terms)
                  => SeedTerms(degree) <= max_num_terms


\* the index set the call numbered k fitted: pce.indices only grows at its
\* end, so it is the first fitted[k].n columns of the last set fitted
FittedIndices(k) == SubSeq(pce_indices, 1, fitted[k].n)

\* C19: when the outer loop is left, before the cleanup of zero coefficients,
\* the best score is the lowest score of all the fits (seed fit and
\* inner-loop fits), and the best indices, coefficients and regularization
\* parameter are those of the earliest fit that reported it, one coefficient
\* per index
C19_ReturnsEarliestMinimum ==
    (mode = "search" /\ pc = "cleanup")
        => /\ best_coef.n = Len(best_indices)
           /\ lowest.score # NoneScore
                  => /\ best_cv_score = lowest.score
                     /\ best_coef.of_fit = lowest.of_fit
                     /\ best_reg_param.of_fit = lowest.of_fit
                     /\ best_indices = FittedIndices(lowest.of_fit)


\* C21: within one search (degree sweep or expand-restrict search) every
\* call of fit_linear_model, the seed fit included, starts from the random
\* state saved at the start of the search, and when the search returns the
\* global random state is that saved state
C21_RngDiscipline ==
    mode \in {"sweep", "search"}
        => /\ \A k \in DOMAIN fitted : fitted[k].rng = rng_state
           /\ (pc = "done" /\ result.status = "returned")
                  => np_random = rng_state

\* an expand-restrict search returned after its seed fit and at least three
\* fits of the inner loop
C21_Witness ==
    /\ mode = "search" /\ pc = "done"
    /\ result.status = "returned"
    /\ Len(fitted) >= 4
    /\ fitted[4].rng = np_random


\* the position, in the returned basis, of column j of the best basis: the
\* number of non-zero coefficients up to it
ReturnedPosition(j) ==
    Cardinality({k \in 1..j : CoefAt(best_coef, k) # 0})

\* C22: the basis the expand-restrict search returns holds exactly the
\* indices of the best basis whose coefficient is not zero, in their
\* original order, each with its own coefficient, and no returned
\* coefficient is zero
C22_FinalizeDropsZeros ==
    (mode = "search" /\ pc = "done" /\ result.status = "returned")
        => /\ Len(pce_indices) = ReturnedPosition(Len(best_indices))
           /\ Len(pce_coefficients) = Len(pce_indices)
           /\ \A p \in DOMAIN pce_coefficients : pce_coefficients[p] # 0
           /\ \A j \in DOMAIN best_indices :
                  CoefAt(best_coef, j) # 0
                      => /\ pce_indices[ReturnedPosition(j)] = best_indices[j]
                         /\ pce_coefficients[ReturnedPosition(j)]
                                = CoefAt(best_coef, j)

\* the cleanup dropped columns from the middle of the best basis and kept
\* at least two
C22_Witness ==
    /\ mode = "search" /\ pc = "done" /\ result.status = "returned"
    /\ Len(pce_indices) >= 2
    /\ Len(pce_indices) < Len(best_indices)
    /\ CoefAt(best_coef, 2) = 0
    /\ CoefAt(best_coef, 1) # 0


\* C23: a pass of the outer loop of the expand-restrict search fits at most
\* three times: its first fit has max_num_expansion_steps 1, a further fit of
\* the same pass has it one higher than the fit before, no fit has it above
\* 3, and a fit whose num_terms is max_num_terms or more is the last fit of
\* its pass of the outer loop
C23_InnerLoopPasses ==
    [][mode = "search"
           => /\ (pc = "fit" /\ fitted' # fitted)
                      => /\ max_num_expansion_steps \in 1..3
                         /\ it' = it
                         /\ pc' \in {"inner", "outer", "done"}
                         /\ num_terms >= max_num_terms => pc' # "inner"
                         /\ pc' = "inner"
                                => max_num_expansion_steps'
                                       = max_num_expansion_steps + 1
                         /\ pc' # "inner"
                                => max_num_expansion_steps'
                                       = max_num_expansion_steps
              /\ pc = "inner"
                      => /\ max_num_expansion_steps' = max_num_expansion_steps
                         /\ it' = it
              /\ (pc = "outer" /\ pc' = "inner")
                      => /\ max_num_expansion_steps' = 1
                         /\ it' = it + 1
              /\ (pc = "seed" /\ pc' = "inner")
                      => /\ max_num_expansion_steps' = 1
                         /\ it' = 0]_vars

C23_Witness ==
    /\ mode = "search" /\ pc = "outer"
    /\ it = 1
    /\ Len(fitted) = 3
    /\ max_num_expansion_steps = 1
    /\ num_terms >= max_num_terms



\* the index count of the degree fitted last, 0 when none was fitted
C24_PreviousCount ==
    IF fitted = <<>> THEN 0
    ELSE NumHyperbolicTerms(num_vars, fitted[Len(fitted)].degree)

\* C24: when the sweep comes to a degree, that degree is not fitted and the
\* sweep goes to its end exactly when the index count of the degree is above
\* 100000 and (count - 100000) > (100000 - the count of the degree fitted
\* before it); otherwise the degree is fitted; and the index set of a sweep
\* that returns is in every case the one of best_degree, a fitted degree
C24_TermCap ==
    [][mode = "sweep"
           => /\ (pc = "loop" /\ degree <= max_degree)
                  => LET count == NumHyperbolicTerms(num_vars, degree)
                         over == /\ count > TermCap
                                 /\ count - TermCap
                                        > TermCap - C24_PreviousCount
                     IN  /\ over => (fitted' = fitted /\ pc' = "finish")
                         /\ ~over
                                => /\ Len(fitted') = Len(fitted) + 1
                                   /\ fitted'[Len(fitted')].degree = degree
              /\ (pc' = "done" /\ result'.status = "returned")
                  => /\ pce_indices' = HyperbolicIndices(num_vars, best_degree)
                     /\ \E k \in DOMAIN fitted :
                            fitted[k].degree = best_degree]_vars

\* the sweep fitted a degree, the count of the next one was too far above
\* the cap, and the sweep returned the index set of the fitted degree
C24_Witness ==
    /\ mode = "sweep" /\ pc = "done" /\ result.status = "returned"
    /\ fitted # <<>>
    /\ degree <= max_degree
    /\ degree = fitted[Len(fitted)].degree + 1
    /\ NumHyperbolicTerms(num_vars, degree) > TermCap
    /\ pce_indices = HyperbolicIndices(num_vars, degree - 1)

\* the rank of best_cv_score among the values the name can have (None and
\* NaN lowest: no score is lower than either)
C25_ScoreRank == best_cv_score - NoneScore

\* the passes of the outer loop since the best score was last lowered
C25_Stall == it - best_it

\* how far the current pass of the outer loop has come: two steps for each
\* pass of its inner loop, then its last lines
C25_Position ==
    CASE pc = "inner" -> 2 * (max_num_expansion_steps - 1)
      [] pc = "fit" -> 2 * (max_num_expansion_steps - 1) + 1
      [] OTHER -> 6

\* the steps the search can still take, at most: lowered scores count most,
\* then outer passes without a lower score, then the steps of the pass
C25_StepsLeft ==
    CASE pc = "done" -> 0
      [] pc = "cleanup" -> 1
      [] pc = "seed" -> 24 * (MaxScore + 6)
      [] OTHER -> 2 + 24 * C25_ScoreRank + 8 * (2 - C25_Stall)
                    + (6 - C25_Position)

\* C25: with the scores drawn from a finite set the expand-restrict search
\* comes to its end: every step lowers a bound on the steps that are left,
\* which is never negative, and no state before the end is stuck. The seed
\* loop ends at a degree whose count exceeds max_num_terms, no inner loop
\* has a pass beyond the third, and a pass of the outer loop that is followed
\* by another one either has strictly lowered best_cv_score or has brought
\* the count of passes without a lower score one closer to its limit of 2
C25_SearchTerminates ==
    /\ [][mode = "search"
              => /\ C25_StepsLeft' < C25_StepsLeft
                 /\ pc = "seed"
                        => /\ num_terms' > max_num_terms
                           /\ SeedBreakDegree(2, max_num_terms)
                                  <= max_num_terms + 1
                 /\ (pc = "outer" /\ pc' = "inner")
                        => \/ /\ best_cv_score' \in (0..MaxScore) \cup {PosInf}
                              /\ best_cv_score \in (0..MaxScore) \cup {PosInf}
                              /\ best_cv_score' < best_cv_score
                           \/ /\ best_cv_score' = best_cv_score
                              /\ C25_Stall' = C25_Stall + 1
                              /\ C25_Stall' <= 2]_vars
    /\ [](mode = "search"
              => /\ C25_StepsLeft >= 0
                 /\ pc \in {"seed", "inner", "fit", "outer", "cleanup", "done"}
                 /\ pc \in {"inner", "fit"}
                        => max_num_expansion_steps \in 1..3
                 /\ pc = "inner"
                        => /\ SearchInInner
                           /\ RestrictOutcomes # {}
                 /\ pc = "fit"
                        => /\ StepOutcomes # {}
                           /\ \A out \in StepOutcomes :
                                  out.status \in {"raised", "returned"})

\* the search lowered its best score in a pass after the first, then went
\* two passes without a lower score, and returned
C25_Witness ==
    /\ mode = "search" /\ pc = "done" /\ result.status = "returned"
    /\ best_it >= 1
    /\ it = best_it + 2



\* the states of the search in which best_num_expansion_steps is bound
C26_InLoops == pc \in {"inner", "fit", "outer", "cleanup"}

\* C26: from line 1011 on best_num_expansion_steps is 1, 2 or 3 and no step
\* of the search raises it; it changes only when an outer pass adopts a
\* strictly lower score, and then to the count of expansion steps of the pass
\* whose fit gave that score; every pass of the inner loop that comes to its
\* fit has applied at least one expansion step and at most
\* best_num_expansion_steps of them
C26_ExpansionStepsBound ==
    [][mode = "search"
           => /\ (pc = "seed" /\ pc' = "inner")
                      => best_num_expansion_steps' = 3
              /\ C26_InLoops
                      => /\ best_num_expansion_steps \in 1..3
                         /\ best_num_expansion_steps' \in 1..3
                         /\ best_num_expansion_steps'
                                <= best_num_expansion_steps
              /\ (pc = "inner" /\ pc' = "fit")
                      => /\ num_expansion_steps' >= 1
                         /\ num_expansion_steps' <= best_num_expansion_steps
                         /\ Len(pce_indices') > Len(pce_indices)
              /\ (pc = "fit" /\ best_cv_score_iter' # best_cv_score_iter)
                      => best_num_expansion_steps_iter' = num_expansion_steps
              /\ (C26_InLoops
                    /\ best_num_expansion_steps' # best_num_expansion_steps)
                      => /\ pc = "outer"
                         /\ best_cv_score' < best_cv_score
                         /\ best_cv_score' = best_cv_score_iter
                         /\ best_num_expansion_steps'
                                = best_num_expansion_steps_iter]_vars

\* a lower score was adopted from a pass with one expansion step, and a
\* later outer pass made its fit after one expansion step
C26_Witness ==
    /\ mode = "search" /\ pc = "outer"
    /\ best_num_expansion_steps = 1
    /\ it > best_it
    /\ num_expansion_steps = 1
    /\ Len(fitted) >= 3

=============================================================================
